---- MODULE Spec2Model ----
\* Model of the ledger-backed Directory of src/acm_lib.ts (class Directory,
\* lines 556-732) over one scoreboard objective shared by several addons.
\*
\* Strings are sequences of one-character strings, so that startsWith,
\* includes, replace, split, toUpperCase and the JSON round trip are computed
\* the way the source computes them.  The objective's participants are kept
\* in insertion order (spec.md, section 3: "ordered set of (label, value)").
EXTENDS Integers, Sequences, FiniteSets, TLC

VARIABLES dbId, ledger, last, prev

\* The subscriber sets of the signal classes and the last call on them.
VARIABLES subs, bus

\* The objectives of world.scoreboard and the last call on the registry.
VARIABLES sb, reg

\* The calls of Directory.write whose promise the caller has not awaited yet.
VARIABLES pend

\* The callers whose await has queued their continuation as a job of the
\* runtime, in the order of the awaits.
VARIABLES jobs

\* Who made the last two operations on the ledger among the callers that
\* hold promises of write, the latest last: a caller, "delete", or "none".
VARIABLES ops

\* The AcmLibrary object of the running addon, the last call on it with the
\* broadcast it left on the host's script-event channel, and for every
\* objective the identity of the addon whose call added it.
VARIABLES acm, host, made

vars == <<dbId, ledger, last, prev, subs, bus, sb, reg, pend, acm, host, made, jobs, ops>>

\* ---------------------------------------------------------------- bounds
\* Largest number of participants the objective holds in the model.
MaxEntries == 3

\* Largest number of subscriptions held over all channels in the model.
MaxSubs == 3

\* Largest number of callback invocations followed within one emit.
MaxCalls == 4

\* ---------------------------------------------------------------- strings
Colon == ":"
Quote == "\""

ROOT_DIR == <<"A", "C", "M", ":", "F", "S">>

Lower ==
    <<"a", "b", "c", "d", "e", "f", "g", "h", "i", "j", "k", "l", "m",
      "n", "o", "p", "q", "r", "s", "t", "u", "v", "w", "x", "y", "z">>
Upper ==
    <<"A", "B", "C", "D", "E", "F", "G", "H", "I", "J", "K", "L", "M",
      "N", "O", "P", "Q", "R", "S", "T", "U", "V", "W", "X", "Y", "Z">>

\* String.prototype.toUpperCase on one character.
upperChar(ch) ==
    IF \E i \in 1..Len(Lower) : Lower[i] = ch
    THEN Upper[CHOOSE i \in 1..Len(Lower) : Lower[i] = ch]
    ELSE ch

toUpperCase(s) == [i \in 1..Len(s) |-> upperChar(s[i])]

\* String.prototype.toLowerCase on one character.
lowerChar(ch) ==
    IF \E i \in 1..Len(Upper) : Upper[i] = ch
    THEN Lower[CHOOSE i \in 1..Len(Upper) : Upper[i] = ch]
    ELSE ch

toLowerCase(s) == [i \in 1..Len(s) |-> lowerChar(s[i])]

\* s occurs in t at position i (1-based).
occursAt(t, s, i) ==
    /\ i >= 1
    /\ i + Len(s) - 1 <= Len(t)
    /\ \A k \in 1..Len(s) : t[i + k - 1] = s[k]

startsWith(t, s) == occursAt(t, s, 1)

includes(t, s) == \E i \in 1..(Len(t) + 1) : occursAt(t, s, i)

\* String.prototype.replace(pattern, '') with a string pattern: the first
\* occurrence only is removed.
replaceFirst(t, s) ==
    IF includes(t, s)
    THEN LET i == CHOOSE j \in 1..(Len(t) + 1) :
                      /\ occursAt(t, s, j)
                      /\ \A k \in 1..(j - 1) : ~occursAt(t, s, k)
         IN SubSeq(t, 1, i - 1) \o SubSeq(t, i + Len(s), Len(t))
    ELSE t

\* String.prototype.split(':')[0]: the text before the first colon.
splitFirst(t) ==
    IF \E i \in 1..Len(t) : t[i] = Colon
    THEN LET i == CHOOSE j \in 1..Len(t) :
                      /\ t[j] = Colon
                      /\ \A k \in 1..(j - 1) : t[k] # Colon
         IN SubSeq(t, 1, i - 1)
    ELSE t

\* Position of the first character ch of t, 0 when t holds none.
indexOfChar(t, ch) ==
    IF \E i \in 1..Len(t) : t[i] = ch
    THEN CHOOSE i \in 1..Len(t) : t[i] = ch /\ \A k \in 1..(i - 1) : t[k] # ch
    ELSE 0

\* String.prototype.split('.'): the parts between the dots, in order.
RECURSIVE split(_)
split(t) ==
    IF indexOfChar(t, ".") = 0 THEN <<t>>
    ELSE <<SubSeq(t, 1, indexOfChar(t, ".") - 1)>>
           \o split(SubSeq(t, indexOfChar(t, ".") + 1, Len(t)))

\* ---------------------------------------------------------------- JSON
\* Content values: numbers and strings, one record shape for both.
Num(n) == [t |-> "num", n |-> n, s |-> <<>>]
Str(s) == [t |-> "str", n |-> 0, s |-> s]
SyntaxError == [t |-> "SyntaxError", n |-> 0, s |-> <<>>]
Undefined == [t |-> "undefined", n |-> 0, s |-> <<>>]

DigitChars == <<"0", "1", "2", "3", "4", "5", "6", "7", "8", "9">>

isDigit(ch) == \E i \in 1..10 : DigitChars[i] = ch

digitValue(ch) == (CHOOSE i \in 1..10 : DigitChars[i] = ch) - 1

RECURSIVE numToStr(_)
numToStr(n) ==
    IF n < 10 THEN <<DigitChars[n + 1]>>
    ELSE numToStr(n \div 10) \o <<DigitChars[(n % 10) + 1]>>

RECURSIVE strToNum(_)
strToNum(s) ==
    IF Len(s) = 1 THEN digitValue(s[1])
    ELSE 10 * strToNum(SubSeq(s, 1, Len(s) - 1)) + digitValue(s[Len(s)])

\* JSON.stringify on the content values of the model.
stringify(v) ==
    IF v.t = "num" THEN numToStr(v.n)
    ELSE <<Quote>> \o v.s \o <<Quote>>

\* JSON.parse: a number literal without leading zero, or a quoted string
\* without an inner quote; anything else is a SyntaxError.
parse(s) ==
    IF /\ Len(s) >= 1
       /\ \A i \in 1..Len(s) : isDigit(s[i])
       /\ (Len(s) > 1 => s[1] # "0")
    THEN Num(strToNum(s))
    ELSE IF /\ Len(s) >= 2
            /\ s[1] = Quote
            /\ s[Len(s)] = Quote
            /\ \A i \in 2..(Len(s) - 1) : s[i] # Quote
         THEN Str(SubSeq(s, 2, Len(s) - 1))
         ELSE SyntaxError

\* `if (data)`: 0, the empty string and undefined are falsy.
truthy(v) ==
    \/ v.t = "num" /\ v.n # 0
    \/ v.t = "str" /\ v.s # <<>>

\* The text of the object { playerId, extensionId } as JSON.stringify
\* writes it.
extMessage(playerId, extensionId) ==
    <<"{", "\"", "p", "l", "a", "y", "e", "r", "I", "d", "\"", ":", "\"">> \o playerId
      \o <<"\"", ",", "\"", "e", "x", "t", "e", "n", "s", "i", "o", "n", "I", "d", "\"", ":", "\"">> \o extensionId \o <<"\"", "}">>

NoExtData == [t |-> "SyntaxError", playerId |-> <<>>, extensionId |-> <<>>]

\* JSON.parse(event.message) as { playerId, extensionId }: the two fields
\* of an object text of that shape; a number or a string parses to a value
\* whose fields are undefined; any other text is a SyntaxError.
parseExt(s) ==
    LET head == <<"{", "\"", "p", "l", "a", "y", "e", "r", "I", "d", "\"", ":", "\"">>
        mid == <<"\"", ",", "\"", "e", "x", "t", "e", "n", "s", "i", "o", "n", "I", "d", "\"", ":", "\"">>
        rest == SubSeq(s, Len(head) + 1, Len(s))
        q == indexOfChar(rest, Quote)
        rest2 == SubSeq(rest, q, Len(rest))
        rest3 == SubSeq(rest2, Len(mid) + 1, Len(rest2))
        q2 == indexOfChar(rest3, Quote)
    IN IF /\ startsWith(s, head)
          /\ q > 0
          /\ startsWith(rest2, mid)
          /\ q2 > 0
          /\ SubSeq(rest3, q2, Len(rest3)) = <<"\"", "}">>
       THEN [t |-> "obj", playerId |-> SubSeq(rest, 1, q - 1),
             extensionId |-> SubSeq(rest3, 1, q2 - 1)]
       ELSE IF parse(s) # SyntaxError
       THEN [t |-> "value", playerId |-> <<>>, extensionId |-> <<>>]
       ELSE NoExtData

\* ---------------------------------------------------------------- inputs
\* The addons that run the library; each holds its own AcmLib.addonData.
Addons ==
    { [author |-> <<"a", "b">>, packId |-> <<"1">>],
      [author |-> <<"b">>, packId |-> <<"1">>] }

\* The addon whose registry created the objective of the directory.
Creator == [author |-> <<"b">>, packId |-> <<"1">>]

DirName == <<"d">>

\* Directory names given to the registry; two differ in letter case only.
DirNames == { <<"d">>, <<"D">>, <<"c">> }

FileNames == { <<"a">>, <<"b">> }

\* File names of the write/delete specification: one of them holds a colon.
ColonNames == { <<"a">>, <<"b">>, <<"a", ":", "b">> }

Contents == { Num(7), Str(<<"x">>) }

\* Contents of the write/delete specification.
ColonContents == { Num(7) }

\* ---------------------------------------------------------------- FsSys
getLocalId(addon) == addon.author \o <<"_">> \o addon.packId

\* FsSys._format, evaluated in the runtime of `addon`.
format(addon, name) ==
    ROOT_DIR \o <<".">> \o toUpperCase(getLocalId(addon)) \o <<".">> \o toUpperCase(name)

\* ---------------------------------------------------------------- ledger
\* ScoreboardObjective.setScore for a string participant: the score of an
\* existing participant is replaced, a new participant is added at the end.
setScore(L, label, slot) ==
    IF \E i \in 1..Len(L) : L[i].label = label
    THEN [i \in 1..Len(L) |->
            IF L[i].label = label THEN [label |-> label, slot |-> slot] ELSE L[i]]
    ELSE Append(L, [label |-> label, slot |-> slot])

\* ScoreboardObjective.removeParticipant for the participant at index i.
removeParticipant(L, i) == SubSeq(L, 1, i - 1) \o SubSeq(L, i + 1, Len(L))

\* ---------------------------------------------------------------- Directory
\* Directory.localId of an instance constructed in the runtime of `me`.
localId(me) == toUpperCase(me.author \o <<"_">> \o me.packId)

\* Index of the participant getKeyIdentity finds, 0 for undefined.
getKeyIdentity(L, fileName) ==
    IF \E i \in 1..Len(L) : startsWith(L[i].label, fileName \o <<Colon>>)
    THEN CHOOSE i \in 1..Len(L) :
            /\ startsWith(L[i].label, fileName \o <<Colon>>)
            /\ \A k \in 1..(i - 1) : ~startsWith(L[k].label, fileName \o <<Colon>>)
    ELSE 0

getKeyData(L, fileName, i) == parse(replaceFirst(L[i].label, fileName \o <<Colon>>))

\* An ownership test that lets every addon through.
isOwnerAnyone(me) == Len(localId(me)) >= 0

\* TRUE when isOwner returns true; it throws otherwise (it never returns false).
isOwner(me) == includes(dbId, localId(me))

exists(L, fileName) == getKeyIdentity(L, fileName) # 0

\* Directory.read: the value returned, or the error thrown.
read(L, fileName) ==
    IF ~exists(L, fileName) THEN [err |-> "NotFound", val |-> Undefined]
    ELSE LET v == getKeyData(L, fileName, getKeyIdentity(L, fileName))
         IN IF v = SyntaxError THEN [err |-> "SyntaxError", val |-> Undefined]
            ELSE [err |-> "none", val |-> v]

\* A write that does not look at allowOverwrite.
writeIgnoringFlag(L, me, fileName, content, allowOverwrite) ==
    IF ~isOwner(me)
    THEN [led |-> L, err |-> "NotOwner"]
    ELSE [led |-> setScore(L, fileName \o <<Colon>> \o stringify(content), Len(L)),
          err |-> "none"]

\* Directory.write.  The method is async and holds no await: its body runs
\* to completion in the call, and an error it throws reaches the caller as
\* the rejection of the returned promise.
write(L, me, fileName, content, allowOverwrite) ==
    LET dataKey == fileName \o <<Colon>> \o stringify(content)
    IN IF exists(L, fileName) /\ ~allowOverwrite
       THEN [led |-> L, err |-> "AlreadyExists"]
       ELSE IF ~isOwner(me)
            THEN [led |-> L, err |-> "NotOwner"]
            ELSE [led |-> setScore(L, dataKey, Len(L)), err |-> "none"]

\* Directory.delete.
delete(L, me, fileName) ==
    IF ~exists(L, fileName) THEN [led |-> L, err |-> "NotFound"]
    ELSE IF ~isOwner(me) THEN [led |-> L, err |-> "NotOwner"]
    ELSE [led |-> removeParticipant(L, getKeyIdentity(L, fileName)), err |-> "none"]

\* Directory.rename.  The promise of the inner write is dropped, so an error
\* of that write does not reach the caller of rename.
rename(L, me, oldFileName, newFileName) ==
    IF ~exists(L, oldFileName) THEN [led |-> L, err |-> "NotFound"]
    ELSE IF exists(L, newFileName) THEN [led |-> L, err |-> "AlreadyExists"]
    ELSE IF ~isOwner(me) THEN [led |-> L, err |-> "NotOwner"]
    ELSE LET content == getKeyData(L, oldFileName, getKeyIdentity(L, oldFileName))
         IN IF content = SyntaxError THEN [led |-> L, err |-> "SyntaxError"]
            ELSE LET d == delete(L, me, oldFileName)
                 IN IF d.err # "none" THEN d
                    ELSE [led |-> write(d.led, me, newFileName, content, TRUE).led,
                          err |-> "none"]

\* Directory.copy.
copy(L, me, sourceFileName, destinationFileName) ==
    IF ~exists(L, sourceFileName) THEN [led |-> L, err |-> "NotFound"]
    ELSE IF exists(L, destinationFileName) THEN [led |-> L, err |-> "AlreadyExists"]
    ELSE IF ~isOwner(me) THEN [led |-> L, err |-> "NotOwner"]
    ELSE LET content == getKeyData(L, sourceFileName, getKeyIdentity(L, sourceFileName))
         IN IF content = SyntaxError THEN [led |-> L, err |-> "SyntaxError"]
            ELSE [led |-> write(L, me, destinationFileName, content, TRUE).led,
                  err |-> "none"]

\* Directory.move: isOwner, then copy, then delete.
move(L, me, sourceFileName, destinationFileName) ==
    IF ~isOwner(me) THEN [led |-> L, err |-> "NotOwner"]
    ELSE LET c == copy(L, me, sourceFileName, destinationFileName)
         IN IF c.err # "none" THEN c
            ELSE delete(c.led, me, sourceFileName)

\* Directory.list.
list(L) == [i \in 1..Len(L) |-> splitFirst(L[i].label)]

\* ---------------------------------------------------------------- signals
\* OnAddonReadyEventSignal, OnCustomSignalEmittedEventSignal,
\* OnSettingsChangedEventSignal, OnExtensionTriggerdEventSignal.
Channels == {"AddonReady", "CustomSignalEmitted", "SettingsChanged", "ExtensionTriggerd"}

\* The Events objects of the process (Events.create builds a new set of
\* signal objects at every call).
Instances == {"e1", "e2"}

\* Callback functions, by identity.
Callbacks == {"k1", "k2", "k3"}

\* Callbacks whose bodies call subscribe and unsubscribe on the channel
\* that invoked them.
MutCallbacks == {"k1", "k3", "k4", "k5"}

\* What the body of a callback does when it is invoked: k1 returns, k2
\* throws, k3 unsubscribes itself from the channel that invoked it, k4
\* unsubscribes itself and subscribes itself again, k5 subscribes k1.
body(cb) ==
    IF cb = "k2" THEN "throw"
    ELSE IF cb = "k3" THEN "unsubscribeSelf"
    ELSE IF cb = "k4" THEN "resubscribeSelf"
    ELSE IF cb = "k5" THEN "subscribeOther"
    ELSE "return"

Payloads == {"p1", "p2"}

\* Where a subscriber set is stored: in a static field of the signal class
\* ("static") or in a field of the signal object of one Events instance.
Slots == ({"static"} \cup Instances) \X Channels

\* A subscriber set kept per signal object.
subscribersPerInstance(inst, ch) == <<inst, ch>>

\* `private static subscribers`: one set per class, whatever the object that
\* subscribe or unsubscribe is called on.
subscribers(inst, ch) == <<"static", ch>>

\* Set.prototype.add that adds the value again when it is already there.
addAlways(S, cb) == Append(S, cb)

\* Set.prototype.add: the set keeps insertion order, a value already in the
\* set stays where it is.
add(S, cb) == IF \E i \in 1..Len(S) : S[i] = cb THEN S ELSE Append(S, cb)

\* Set.prototype.delete that removes the first value of the set.
removeFirst(S, cb) == IF Len(S) = 0 THEN S ELSE Tail(S)

\* Set.prototype.delete.
remove(S, cb) ==
    LET keep(x) == x # cb IN SelectSeq(S, keep)

NoCallback == "none"
NoPayload == "none"

NoCall ==
    [op |-> "none", inst |-> "static", ch |-> "AddonReady", cb |-> NoCallback,
     payload |-> NoPayload, pre |-> [sl \in Slots |-> <<>>], calls |-> <<>>,
     cursor |-> 0, active |-> FALSE, raised |-> FALSE, mutated |-> FALSE]

\* One callback invoked without the try/catch of emit: the error of a
\* throwing callback ends the loop and reaches the emitter.
invokeUncaught(b, cb) ==
    IF body(cb) = "throw"
    THEN [b EXCEPT !.calls = Append(@, [cb |-> cb, payload |-> b.payload, threw |-> TRUE]),
                   !.active = FALSE, !.raised = TRUE]
    ELSE [b EXCEPT !.calls = Append(@, [cb |-> cb, payload |-> b.payload, threw |-> FALSE]),
                   !.cursor = @ + 1]

\* try { callback(event) } catch (error) { console.error(...) }: the record
\* of the emission after the callback at the cursor was invoked.
invoke(b, cb) ==
    [b EXCEPT !.calls = Append(@, [cb |-> cb, payload |-> b.payload,
                                   threw |-> (body(cb) = "throw")]),
              !.cursor = @ + 1]

\* A loop that walks the set from its last value to its first.
nextCallbackReversed(S, cursor) == S[Len(S) - cursor]

\* for (const callback of this.subscribers): the value the iterator yields
\* after `cursor` values of the set were passed, in insertion order.
nextCallback(S, cursor) == S[cursor + 1]

\* The subscriber set after the body of cb has run: unsubscribe is
\* Set.delete, subscribe is Set.add, which puts a value that is not in the
\* set at the end of the insertion order.
afterBody(S, cb) ==
    IF body(cb) = "unsubscribeSelf" THEN remove(S, cb)
    ELSE IF body(cb) = "resubscribeSelf" THEN add(remove(S, cb), cb)
    ELSE IF body(cb) = "subscribeOther" THEN add(S, "k1")
    ELSE S

\* Number of subscriptions over all slots.
RECURSIVE totalSubs(_, _)
totalSubs(f, S) ==
    IF S = {} THEN 0
    ELSE LET sl == CHOOSE x \in S : TRUE
         IN Len(f[sl]) + totalSubs(f, S \ {sl})

\* subscribe(callback) on the signal object of Events instance inst.
Subscribe(inst, ch, cb) ==
    /\ ~bus.active
    /\ LET sl == subscribers(inst, ch)
           S == add(subs[sl], cb)
       IN /\ totalSubs([subs EXCEPT ![sl] = S], Slots) <= MaxSubs
          /\ subs' = [subs EXCEPT ![sl] = S]
    /\ bus' = [NoCall EXCEPT !.op = "subscribe", !.inst = inst, !.ch = ch,
                              !.cb = cb, !.pre = subs]
    /\ UNCHANGED <<dbId, ledger, last, prev, sb, reg, pend, acm, host, made, jobs, ops>>

\* unsubscribe(callback) on the signal object of Events instance inst.
Unsubscribe(inst, ch, cb) ==
    /\ ~bus.active
    /\ subs' = [subs EXCEPT ![subscribers(inst, ch)] = remove(@, cb)]
    /\ bus' = [NoCall EXCEPT !.op = "unsubscribe", !.inst = inst, !.ch = ch,
                              !.cb = cb, !.pre = subs]
    /\ UNCHANGED <<dbId, ledger, last, prev, sb, reg, pend, acm, host, made, jobs, ops>>

\* static emit(event) is entered: the for-of loop starts on the live set.
EmitStart(ch, p) ==
    /\ ~bus.active
    /\ bus' = [NoCall EXCEPT !.op = "emit", !.ch = ch, !.payload = p,
                              !.pre = subs, !.active = TRUE]
    /\ UNCHANGED <<dbId, ledger, last, prev, subs, sb, reg, pend, acm, host, made, jobs, ops>>

\* One turn of the loop of emit: the next callback of the live set is
\* invoked, and what its body does to the set is done.  A value deleted
\* from a Set under iteration is not visited later; the iterator goes on
\* with the value that followed it, so the cursor counts the passed values
\* that are still in the set.
EmitStep ==
    /\ bus.active
    /\ Len(bus.calls) < MaxCalls
    /\ LET sl == subscribers("static", bus.ch)
           S == subs[sl]
       IN /\ bus.cursor < Len(S)
          /\ LET cb == nextCallback(S, bus.cursor)
                 b == invoke(bus, cb)
             IN IF body(cb) \in {"unsubscribeSelf", "resubscribeSelf"} /\ b.active
                THEN /\ subs' = [subs EXCEPT ![sl] = afterBody(S, cb)]
                     /\ bus' = [b EXCEPT !.mutated = TRUE,
                                         !.cursor = Len(remove(SubSeq(S, 1, @), cb))]
                ELSE IF body(cb) = "subscribeOther" /\ b.active
                THEN /\ totalSubs([subs EXCEPT ![sl] = afterBody(S, cb)], Slots) <= MaxSubs
                     /\ subs' = [subs EXCEPT ![sl] = afterBody(S, cb)]
                     /\ bus' = [b EXCEPT !.mutated = (@ \/ afterBody(S, cb) # S)]
                ELSE /\ subs' = subs
                     /\ bus' = b
    /\ UNCHANGED <<dbId, ledger, last, prev, sb, reg, pend, acm, host, made, jobs, ops>>

\* The loop of emit has visited the whole set: emit returns.
EmitReturn ==
    /\ bus.active
    /\ bus.cursor >= Len(subs[subscribers("static", bus.ch)])
    /\ bus' = [bus EXCEPT !.active = FALSE]
    /\ UNCHANGED <<dbId, ledger, last, prev, subs, sb, reg, pend, acm, host, made, jobs, ops>>

NextBus ==
    \/ \E inst \in Instances, ch \in Channels, cb \in Callbacks : Subscribe(inst, ch, cb)
    \/ \E inst \in Instances, ch \in Channels, cb \in Callbacks : Unsubscribe(inst, ch, cb)
    \/ \E ch \in Channels, p \in Payloads : EmitStart(ch, p)
    \/ EmitStep
    \/ EmitReturn

\* One channel, with callbacks that change its subscriber set while emit
\* walks it.
NextMut ==
    \/ \E cb \in MutCallbacks : Subscribe("e1", "CustomSignalEmitted", cb)
    \/ \E cb \in MutCallbacks : Unsubscribe("e1", "CustomSignalEmitted", cb)
    \/ \E p \in Payloads : EmitStart("CustomSignalEmitted", p)
    \/ EmitStep
    \/ EmitReturn

\* ---------------------------------------------------------------- state
NoName == <<>>

\* ---------------------------------------------------------------- FsDir
\* The scoreboard is a function from the ids of the objectives that exist to
\* the objectives; <<>> is the scoreboard without objectives.
getObjective(S, id) == id \in DOMAIN S

\* Scoreboard.addObjective(id): a new objective without participants, whose
\* display name is its id.
addObjective(S, id) ==
    [x \in DOMAIN S \cup {id} |->
        IF x = id THEN [displayName |-> id, participants |-> <<>>] ELSE S[x]]

\* Scoreboard.removeObjective(id).
removeObjective(S, id) == [x \in DOMAIN S \ {id} |-> S[x]]

NoDirectory == <<>>

\* FsDir.isValid, in the runtime of addon me.
FsDir_isValid(S, me, name) == getObjective(S, format(me, name))

\* FsDir.get: the dbId of the Directory returned, NoDirectory for undefined.
FsDir_get(S, me, name) ==
    IF getObjective(S, format(me, name))
    THEN S[format(me, name)].displayName
    ELSE NoDirectory

\* A new that adds the objective without looking for an existing one.
FsDir_newAlwaysAdds(S, me, name) ==
    [sb |-> addObjective(S, format(me, name)), err |-> "none",
     ret |-> format(me, name)]

\* FsDir.new: the scoreboard it leaves and the dbId of the Directory returned.
FsDir_new(S, me, name) ==
    LET formatedName == format(me, name)
    IN IF FsDir_isValid(S, me, name) /\ FsDir_get(S, me, name) # NoDirectory
       THEN [sb |-> S, err |-> "none", ret |-> FsDir_get(S, me, name)]
       ELSE [sb |-> addObjective(S, formatedName), err |-> "none",
             ret |-> addObjective(S, formatedName)[formatedName].displayName]

\* A delete that removes without looking for the directory.
FsDir_deleteUnchecked(S, me, name) ==
    [sb |-> removeObjective(S, format(me, name)), err |-> "none", ret |-> NoDirectory]

\* FsDir.delete.
FsDir_delete(S, me, name) ==
    IF FsDir_get(S, me, name) = NoDirectory
    THEN [sb |-> S, err |-> "NotFound", ret |-> NoDirectory]
    ELSE [sb |-> removeObjective(S, format(me, name)), err |-> "none",
          ret |-> NoDirectory]

NoRegCall ==
    [op |-> "none", me |-> Creator, name |-> NoName, err |-> "none",
     ret |-> NoDirectory, pre |-> <<>>]

RegStep(r, rec) ==
    /\ sb' = r.sb
    /\ reg' = [rec EXCEPT !.err = r.err, !.ret = r.ret, !.pre = sb]
    /\ made' = [x \in DOMAIN made \cup DOMAIN r.sb |->
                  IF x \in DOMAIN r.sb \ DOMAIN sb THEN getLocalId(rec.me) ELSE made[x]]
    /\ UNCHANGED <<dbId, ledger, last, prev, subs, bus, pend, acm, host, jobs, ops>>

New(me, name) ==
    RegStep(FsDir_new(sb, me, name),
            [NoRegCall EXCEPT !.op = "new", !.me = me, !.name = name])

Get(me, name) ==
    RegStep([sb |-> sb, err |-> "none", ret |-> FsDir_get(sb, me, name)],
            [NoRegCall EXCEPT !.op = "get", !.me = me, !.name = name])

DeleteDir(me, name) ==
    RegStep(FsDir_delete(sb, me, name),
            [NoRegCall EXCEPT !.op = "delete", !.me = me, !.name = name])

\* get(name).write(f, c) by the addon the directory belongs to, for a
\* directory that exists: the new entry is put in the objective's ledger.
WriteIn(me, name, f, c) ==
    /\ FsDir_get(sb, me, name) # NoDirectory
    /\ LET id == format(me, name)
           L == sb[id].participants
           dataKey == f \o <<Colon>> \o stringify(c)
       IN /\ Len(setScore(L, dataKey, Len(L))) <= MaxEntries
          /\ RegStep([sb |-> [sb EXCEPT ![id].participants = setScore(L, dataKey, Len(L))],
                      err |-> "none", ret |-> NoDirectory],
                     [NoRegCall EXCEPT !.op = "write", !.me = me, !.name = name])

NextReg ==
    \/ \E me \in Addons, name \in DirNames : New(me, name)
    \/ \E me \in Addons, name \in DirNames : Get(me, name)
    \/ \E me \in Addons, name \in DirNames : DeleteDir(me, name)
    \/ \E me \in Addons, name \in DirNames : WriteIn(me, name, <<"a">>, Num(7))

\* ---------------------------------------------------------------- AcmLibrary
\* `undefined`, as a template literal prints it.
UndefinedText == <<"u", "n", "d", "e", "f", "i", "n", "e", "d">>

\* AcmLib.addonData before initAddon; `addonData?.description.author` is
\* then undefined.
NoAddonData ==
    [set |-> FALSE,
     description |-> [author |-> UndefinedText, packId |-> UndefinedText],
     extensions |-> [def |-> FALSE, ids |-> <<>>]]

\* The AddonData objects given to initAddon: without extensions, with an
\* empty list of extensions, and with the extension "ab".
AddonDatas ==
    { [set |-> TRUE, description |-> Creator, extensions |-> x] :
        x \in { [def |-> FALSE, ids |-> <<>>],
                [def |-> TRUE, ids |-> <<>>],
                [def |-> TRUE, ids |-> << <<"a", "b">> >>] } }

\* AcmLibrary.identifier.
identifier(data) == data.description.author \o <<"_">> \o data.description.packId

NoAcm ==
    [addonData |-> NoAddonData, responseAdress |-> [def |-> FALSE, s |-> <<>>],
     hasExtensions |-> FALSE]

NoBroadcast == [def |-> FALSE, id |-> <<>>, message |-> <<>>]

\* The last call on the AcmLibrary: emit(e, d) (given says whether d was
\* passed) or the listener handling the event `in` (own says it is the
\* broadcast of the emit before it); ch is the channel the listener
\* emitted on, out the broadcast the call sent.
NoHost ==
    [op |-> "none", err |-> "none", e |-> <<>>, d |-> Undefined, given |-> FALSE,
     in |-> NoBroadcast, own |-> FALSE, ch |-> "none", out |-> NoBroadcast]

EngineReadyId == <<"a", "c", "m", ":", "e", "n", "g", "i", "n", "e", "_", "r", "e", "a", "d", "y">>

AddonReadyId == <<"a", "c", "m", ":", "a", "d", "d", "o", "n", "_", "r", "e", "a", "d", "y">>

SignalKeyPrefix == <<"a", "c", "m", ":", "s", "i", "g", "n", "a", "l", ".">>

SignalPrefix == <<"A", "C", "M", ":", "S", "I", "G", "N", "A", "L", ".">>

ExtPrefix == <<"a", "c", "m", ":", "e", "x", "t", "_">>

VoidText == <<"v", "o", "i", "d">>

HudHomeId == <<"a", "c", "m", ":", "h", "u", "d", "_", "h", "o", "m", "e">>

HudAddonId == <<"a", "c", "m", ":", "h", "u", "d", "_", "a", "d", "d", "o", "n">>


\* The ids of the entities of the world (world.getEntity).
Entities == { <<"p">> }

\* The text of the extensions array as JSON.stringify writes it.
RECURSIVE stringifyExtensions(_)
stringifyExtensions(ids) ==
    IF ids = <<>> THEN <<>>
    ELSE <<"{", "\"", "i", "d", "\"", ":", "\"">> \o Head(ids) \o <<"\"", "}">>
           \o (IF Len(ids) > 1 THEN <<",">> ELSE <<>>)
           \o stringifyExtensions(Tail(ids))

\* JSON.stringify(this.addonData) for the addon data of the model.
stringifyAddonData(data) ==
    <<"{", "\"", "d", "e", "s", "c", "r", "i", "p", "t", "i", "o", "n", "\"", ":", "{", "\"", "a", "u", "t", "h", "o", "r", "\"", ":", "\"">> \o data.description.author
      \o <<"\"", ",", "\"", "p", "a", "c", "k", "I", "d", "\"", ":", "\"">> \o data.description.packId \o <<"\"", "}">>
      \o (IF data.extensions.def
          THEN <<",", "\"", "e", "x", "t", "e", "n", "s", "i", "o", "n", "s", "\"", ":", "[">> \o stringifyExtensions(data.extensions.ids) \o <<"]">>
          ELSE <<>>)
      \o <<"}">>

\* JSON.stringify({ playerId: player.id, addonData: this.addonData }): a
\* property whose value is undefined is left out.
stringifyAddonForm(playerId, data) ==
    <<"{", "\"", "p", "l", "a", "y", "e", "r", "I", "d", "\"", ":", "\"">> \o playerId \o <<Quote>>
      \o (IF data.set THEN <<",", "\"", "a", "d", "d", "o", "n", "D", "a", "t", "a", "\"", ":">> \o stringifyAddonData(data) ELSE <<>>)
      \o <<"}">>

\* AcmLibrary.emit: the broadcast given to system.sendScriptEvent.
emitBroadcast(a, eventId, data, given) ==
    [def |-> TRUE,
     id |-> toUpperCase(SignalKeyPrefix \o identifier(a.addonData) \o <<".">> \o eventId),
     message |-> IF given /\ truthy(data) THEN stringify(data) ELSE VoidText]

Thrown(e) == [err |-> e, ch |-> "none", payload |-> NoPayload, out |-> NoBroadcast]

Emitted(ch, p, out) == [err |-> "none", ch |-> ch, payload |-> p, out |-> out]

\* AcmLibrary.extensionListener(event) with onWorldReady: the error thrown,
\* the channel emitted on with its event object, the broadcast sent.
extensionListener(a, event) ==
    IF event.id = EngineReadyId
    THEN IF ~a.addonData.set THEN Thrown("NoAddonData")
         ELSE Emitted("AddonReady", [addonData |-> a.addonData],
                      [def |-> TRUE, id |-> AddonReadyId,
                       message |-> stringifyAddonData(a.addonData)])
    ELSE IF startsWith(event.id, SignalPrefix)
    THEN LET parts == split(event.id)
         IN IF Len(parts) < 3 THEN Thrown("TypeError")
            ELSE IF event.message = VoidText
            THEN Emitted("CustomSignalEmitted",
                         [addonId |-> toLowerCase(parts[2]),
                          emitterId |-> toLowerCase(parts[3]), data |-> Undefined],
                         NoBroadcast)
            ELSE IF parse(event.message) = SyntaxError THEN Thrown("SyntaxError")
            ELSE Emitted("CustomSignalEmitted",
                         [addonId |-> toLowerCase(parts[2]),
                          emitterId |-> toLowerCase(parts[3]),
                          data |-> parse(event.message)],
                         NoBroadcast)
    ELSE IF ~a.addonData.set THEN Thrown("NoAddonData")
    ELSE IF \/ ~a.hasExtensions
            \/ event.message = <<>>
            \/ ~a.responseAdress.def
            \/ a.responseAdress.s = <<>>
            \/ event.id # ExtPrefix \o a.responseAdress.s
            \/ ~a.addonData.extensions.def
    THEN Thrown("none")
    ELSE LET data == parseExt(event.message)
             extensionId == IF data.t = "obj" THEN data.extensionId ELSE UndefinedText
             ids == a.addonData.extensions.ids
         IN IF data.t = "SyntaxError" THEN Thrown("SyntaxError")
            ELSE IF ~\E i \in 1..Len(ids) : includes(ids[i], extensionId)
            THEN Thrown("none")
            ELSE IF data.t # "obj" \/ data.playerId \notin Entities THEN Thrown("none")
            ELSE Emitted("ExtensionTriggerd",
                         [extensionId |-> data.extensionId, player |-> data.playerId],
                         NoBroadcast)

\* ---------------------------------------------------------------- AcmLib.Fs.Dir
\* Another addon, with its own AcmLib, on the same world scoreboard.
OtherAddon == [author |-> <<"a", "b">>, packId |-> <<"1">>]

\* A getLocalId that goes on without addon data.
addonDataAssumed(data) == TRUE

\* `if (!addonData) throw new Error('Addon data not found')` of
\* FsSys.getLocalId does not throw.
addonDataFound(data) == data.set

\* The boolean that isValid returns, in the ret field of the call record.
BoolText(b) == IF b THEN <<"true">> ELSE <<"false">>

\* initAddon(data) on the AcmLibrary of the running addon; no call is made
\* while the listener is inside the loop of an emit.
InitAddon(data) ==
    /\ ~bus.active
    /\ IF acm.addonData.set
       THEN /\ acm' = acm
            /\ host' = [NoHost EXCEPT !.op = "initAddon", !.err = "AlreadyInitialized"]
       ELSE /\ acm' = [addonData |-> data,
                       responseAdress |-> [def |-> TRUE, s |-> identifier(data)],
                       hasExtensions |-> data.extensions.def]
            /\ host' = [NoHost EXCEPT !.op = "initAddon"]
    /\ UNCHANGED <<dbId, ledger, last, prev, subs, bus, sb, reg, pend, made, jobs, ops>>

\* AcmLib.Fs.Dir.isValid/get/new/delete(name) in the running addon: every
\* one of them evaluates format(name) first, which calls getLocalId.
Fs(op, name) ==
    LET me == acm.addonData.description
        r == IF ~addonDataFound(acm.addonData)
             THEN [sb |-> sb, err |-> "Uninitialized", ret |-> NoDirectory]
             ELSE IF op = "isValid"
             THEN [sb |-> sb, err |-> "none", ret |-> BoolText(FsDir_isValid(sb, me, name))]
             ELSE IF op = "get"
             THEN [sb |-> sb, err |-> "none", ret |-> FsDir_get(sb, me, name)]
             ELSE IF op = "new" THEN FsDir_new(sb, me, name)
             ELSE FsDir_delete(sb, me, name)
    IN RegStep(r, [NoRegCall EXCEPT !.op = op, !.me = me, !.name = name])

RegistryOps == {"isValid", "get", "new", "delete"}

\* ---------------------------------------------------------------- AcmLib.emit and the listener
EmitterIds == { <<"X">>, <<"a", ".", "b">> }

\* The data given to emit: two truthy values and two falsy ones.
SignalData == { Num(7), Str(<<"x">>), Num(0), Str(<<>>) }

\* Script events sent by other scripts of the world.
Inbound ==
    { [def |-> TRUE, id |-> ExtPrefix \o <<"b", "_", "1">>, message |-> m] :
        m \in { extMessage(<<"p">>, <<"a", "b">>), extMessage(<<"p">>, <<"a">>),
                extMessage(<<"p">>, <<"c">>), extMessage(<<"q">>, <<"a", "b">>),
                <<>>, <<"7">>, <<"x">> } }
      \cup { [def |-> TRUE, id |-> ExtPrefix \o <<"a", "b", "_", "1">>,
              message |-> extMessage(<<"p">>, <<"a", "b">>)],
             [def |-> TRUE, id |-> EngineReadyId, message |-> <<>>],
             [def |-> TRUE, id |-> SignalPrefix \o <<"A", "B", "_", "1">>, message |-> VoidText],
             [def |-> TRUE, id |-> SignalPrefix \o <<"A", "B", "_", "1", ".", "X">>,
              message |-> VoidText] }

SigChannels == {"CustomSignalEmitted", "ExtensionTriggerd"}

SigCallbacks == {"k1", "k2"}

\* AcmLib.emit(e, d), or AcmLib.emit(e) when d is not given.
AcmEmit(e, d, given) ==
    /\ ~bus.active
    /\ host' = [NoHost EXCEPT !.op = "emit", !.e = e, !.d = d, !.given = given,
                               !.out = emitBroadcast(acm, e, d, given)]
    /\ bus' = NoCall
    /\ UNCHANGED <<dbId, ledger, last, prev, subs, sb, reg, pend, acm, made, jobs, ops>>

\* AcmLib.showHomeForm(player).
ShowHomeForm(playerId) ==
    /\ ~bus.active
    /\ host' = [NoHost EXCEPT !.op = "showHomeForm",
                               !.out = [def |-> TRUE, id |-> HudHomeId, message |-> playerId]]
    /\ bus' = NoCall
    /\ UNCHANGED <<dbId, ledger, last, prev, subs, sb, reg, pend, acm, made, jobs, ops>>

\* AcmLib.showAddonForm(player).
ShowAddonForm(playerId) ==
    /\ ~bus.active
    /\ host' = [NoHost EXCEPT !.op = "showAddonForm",
                               !.out = [def |-> TRUE, id |-> HudAddonId,
                                        message |-> stringifyAddonForm(playerId, acm.addonData)]]
    /\ bus' = NoCall
    /\ UNCHANGED <<dbId, ledger, last, prev, subs, sb, reg, pend, acm, made, jobs, ops>>

\* The listener registered in the constructor receives event and runs up
\* to its call of a static emit, whose loop goes on in EmitStep.  bus is the
\* record of the signal call made by the last call on the library: NoCall
\* when that call made none.
Handle(event, own) ==
    /\ ~bus.active
    /\ LET r == extensionListener(acm, event)
       IN /\ host' = [host EXCEPT !.op = "deliver", !.err = r.err, !.in = event,
                                   !.own = own, !.ch = r.ch, !.out = r.out]
          /\ bus' = IF r.ch = "none" THEN NoCall
                    ELSE [NoCall EXCEPT !.op = "emit", !.ch = r.ch, !.payload = r.payload,
                                        !.pre = subs, !.active = TRUE]
    /\ UNCHANGED <<dbId, ledger, last, prev, subs, sb, reg, pend, acm, made, jobs, ops>>

\* The host delivers the broadcast that the last call sent.
Deliver ==
    /\ host.out.def
    /\ Handle(host.out, host.op = "emit")

\* The host delivers a script event of another script.
Receive(event) == Handle(event, FALSE)

NextSig ==
    \/ \E data \in AddonDatas : InitAddon(data)
    \/ \E ch \in SigChannels, cb \in SigCallbacks : Subscribe("e1", ch, cb)
    \/ \E e \in EmitterIds, d \in SignalData : AcmEmit(e, d, TRUE)
    \/ \E e \in EmitterIds : AcmEmit(e, Undefined, FALSE)
    \/ \E playerId \in Entities : ShowHomeForm(playerId)
    \/ \E playerId \in Entities : ShowAddonForm(playerId)
    \/ Deliver
    \/ \E event \in Inbound : Receive(event)
    \/ EmitStep
    \/ EmitReturn

NextInit ==
    \/ \E data \in AddonDatas : InitAddon(data)
    \/ \E op \in RegistryOps, name \in DirNames : Fs(op, name)
    \/ \E name \in DirNames : New(OtherAddon, name)
    \/ \E name \in DirNames : DeleteDir(OtherAddon, name)

\* Addons whose identities differ in the case of a letter only.
NsAddons ==
    { [author |-> <<"b">>, packId |-> <<"1">>],
      [author |-> <<"B">>, packId |-> <<"1">>] }

NextNs ==
    \/ \E me \in NsAddons, name \in DirNames : New(me, name)
    \/ \E me \in NsAddons, name \in DirNames : Get(me, name)
    \/ \E me \in NsAddons, name \in DirNames : DeleteDir(me, name)
    \/ \E me \in NsAddons, name \in DirNames : WriteIn(me, name, <<"a">>, Num(7))

NoOp ==
    [op |-> "none", me |-> Creator, f |-> NoName, g |-> NoName,
     c |-> Undefined, ow |-> TRUE, err |-> "none", pre |-> <<>>]

\* What is kept of the operation before the last one: a write or a copy
\* that completed, nothing of any other call.
summary(r) ==
    IF r.err = "none" /\ r.op \in {"write", "copy"}
    THEN [op |-> r.op, f |-> r.f, g |-> r.g, c |-> r.c]
    ELSE [op |-> "other", f |-> NoName, g |-> NoName, c |-> Undefined]

\* Two callers of write, each holding the promise of its call.
Writers == {"w1", "w2"}

Idle ==
    [pc |-> "idle", f |-> NoName, c |-> Undefined, slot |-> 0,
     with |-> {}, fresh |-> FALSE]

\* The objective exists and is empty (FsDir.new, lines 772-773); its display
\* name is the name it was added under.
Init ==
    /\ dbId = format(Creator, DirName)
    /\ ledger = <<>>
    /\ last = NoOp
    /\ prev = summary(NoOp)
    /\ subs = [sl \in Slots |-> <<>>]
    /\ bus = NoCall
    /\ sb = <<>>
    /\ reg = NoRegCall
    /\ pend = [w \in Writers |-> Idle]
    /\ acm = NoAcm
    /\ host = NoHost
    /\ made = <<>>
    /\ jobs = <<>>
    /\ ops = <<"none", "none">>

\* One call on a Directory instance: the ledger it leaves, the error it
\* raised, and the ledger it started from.
Step(r, rec) ==
    /\ Len(r.led) <= MaxEntries
    /\ ledger' = r.led
    /\ last' = [rec EXCEPT !.err = r.err, !.pre = ledger]
    /\ UNCHANGED <<dbId, subs, bus, sb, reg, pend, acm, host, made, jobs, ops>>

Write(me, f, c, ow) ==
    Step(write(ledger, me, f, c, ow),
         [NoOp EXCEPT !.op = "write", !.me = me, !.f = f, !.c = c, !.ow = ow])

Delete(me, f) ==
    Step(delete(ledger, me, f), [NoOp EXCEPT !.op = "delete", !.me = me, !.f = f])

Rename(me, f, g) ==
    Step(rename(ledger, me, f, g),
         [NoOp EXCEPT !.op = "rename", !.me = me, !.f = f, !.g = g])

Copy(me, f, g) ==
    Step(copy(ledger, me, f, g),
         [NoOp EXCEPT !.op = "copy", !.me = me, !.f = f, !.g = g])

Move(me, f, g) ==
    Step(move(ledger, me, f, g),
         [NoOp EXCEPT !.op = "move", !.me = me, !.f = f, !.g = g])

\* ---------------------------------------------------------------- write, call by call
\* A write that gives every entry the slot 0.
slotNumberZero(L) == 0

\* `const slotNumber = this.objective.getParticipants().length`.
slotNumber(L) == Len(L)

\* write(f, c) by the owner with the default allowOverwrite, called while
\* the promises of earlier calls may not have been awaited yet.  The body
\* of the async function holds no await: the count (line 623) and the
\* setScore (line 624) run one after the other before the call returns its
\* promise, and no statement of another call comes between them.
WriteCall(w, f, c) ==
    /\ pend[w].pc = "idle"
    /\ isOwner(Creator)
    /\ LET dataKey == f \o <<Colon>> \o stringify(c)
           L == setScore(ledger, dataKey, slotNumber(ledger))
       IN /\ Len(L) <= MaxEntries
          /\ ledger' = L
    /\ pend' = [pend EXCEPT ![w] =
                  [pc |-> "called", f |-> f, c |-> c, slot |-> slotNumber(ledger),
                   with |-> { v \in Writers \ {w} : pend[v].pc = "called" },
                   fresh |-> ~exists(ledger, f)]]
    /\ ops' = <<ops[2], w>>
    /\ UNCHANGED <<dbId, last, prev, subs, bus, sb, reg, acm, host, made, jobs>>

\* The caller awaits the promise that its call of write returned: its
\* continuation is queued as a job.
WriteAwait(w) ==
    /\ pend[w].pc = "called"
    /\ pend' = [pend EXCEPT ![w].pc = "awaited"]
    /\ jobs' = Append(jobs, w)
    /\ UNCHANGED <<dbId, ledger, last, prev, subs, bus, sb, reg, acm, host, made, ops>>

\* The runtime runs the first queued job: that caller goes on after its
\* await, whatever promise the other caller holds.
WriteReturn ==
    /\ jobs # <<>>
    /\ pend' = [pend EXCEPT ![Head(jobs)] = Idle]
    /\ jobs' = Tail(jobs)
    /\ UNCHANGED <<dbId, ledger, last, prev, subs, bus, sb, reg, acm, host, made, ops>>

\* delete(f) by the owner, while no promise of write is held.
DeleteBetween(f) ==
    /\ \A w \in Writers : pend[w].pc = "idle"
    /\ delete(ledger, Creator, f).err = "none"
    /\ ledger' = delete(ledger, Creator, f).led
    /\ ops' = <<ops[2], "delete">>
    /\ UNCHANGED <<dbId, last, prev, subs, bus, sb, reg, pend, acm, host, made, jobs>>

NextRace ==
    \/ \E w \in Writers, f \in FileNames, c \in Contents : WriteCall(w, f, c)
    \/ \E w \in Writers : WriteAwait(w)
    \/ WriteReturn
    \/ \E f \in FileNames : DeleteBetween(f)

\* Every operation, called by the owner and by another addon.
Next ==
    \/ \E me \in Addons, f \in FileNames, c \in Contents, ow \in BOOLEAN :
            Write(me, f, c, ow) /\ UNCHANGED prev
    \/ \E me \in Addons, f \in FileNames : Delete(me, f) /\ UNCHANGED prev
    \/ \E me \in Addons, f \in FileNames, g \in FileNames :
            Rename(me, f, g) /\ UNCHANGED prev
    \/ \E me \in Addons, f \in FileNames, g \in FileNames :
            Copy(me, f, g) /\ UNCHANGED prev
    \/ \E me \in Addons, f \in FileNames, g \in FileNames :
            Move(me, f, g) /\ UNCHANGED prev

Spec == Init /\ [][Next]_vars

\* Sequences of owner calls, remembering the call before the last one.
NextSeq ==
    \/ \E me \in Addons, f \in FileNames, c \in Contents, ow \in BOOLEAN :
            isOwner(me) /\ Write(me, f, c, ow) /\ prev' = summary(last)
    \/ \E me \in Addons, f \in FileNames :
            isOwner(me) /\ Delete(me, f) /\ prev' = summary(last)
    \/ \E me \in Addons, f \in FileNames, g \in FileNames :
            isOwner(me) /\ Copy(me, f, g) /\ prev' = summary(last)

SpecSeq == Init /\ [][NextSeq]_vars

\* Owner writes (allowOverwrite left at its default) and copies, with one
\* written name that holds a colon, remembering the call before the last one.
NextCopy ==
    \/ \E me \in Addons, f \in FileNames, c \in Contents :
            isOwner(me) /\ Write(me, f, c, TRUE) /\ prev' = summary(last)
    \/ \E me \in Addons, f \in ColonNames \ FileNames, c \in ColonContents :
            isOwner(me) /\ Write(me, f, c, TRUE) /\ prev' = summary(last)
    \/ \E me \in Addons, f \in FileNames, g \in FileNames :
            isOwner(me) /\ Copy(me, f, g) /\ prev' = summary(last)

SpecCopy == Init /\ [][NextCopy]_vars

\* Owner writes and deletes only, over names that may hold a colon.
NextWD ==
    \/ \E me \in Addons, f \in ColonNames, c \in ColonContents, ow \in BOOLEAN :
            isOwner(me) /\ Write(me, f, c, ow) /\ UNCHANGED prev
    \/ \E me \in Addons, f \in ColonNames :
            isOwner(me) /\ Delete(me, f) /\ UNCHANGED prev

SpecWD == Init /\ [][NextWD]_vars

\* The signal classes: subscribe, unsubscribe and emit on the four channels.
SpecBus == Init /\ [][NextBus]_vars

\* The registry of directories, called by both addons.
SpecReg == Init /\ [][NextReg]_vars

\* Calls of write made before the promises of earlier calls are awaited.
SpecRace == Init /\ [][NextRace]_vars

\* Emissions whose callbacks subscribe and unsubscribe on the channel.
SpecMut == Init /\ [][NextMut]_vars

\* The registry of an addon before and after its initAddon, next to the
\* registry of another addon.
SpecInit == Init /\ [][NextInit]_vars

\* The registries of two addons whose identities differ in case only.
SpecNs == Init /\ [][NextNs]_vars

\* The facade between the host's script events and the signal classes.
SpecSig == Init /\ [][NextSig]_vars

TypeOK ==
    /\ Len(ledger) <= MaxEntries
    /\ \A i \in 1..Len(ledger) : ledger[i].slot \in 0..MaxEntries

\* ---------------------------------------------------------------- claims
\* The caller of the last operation is not an owner: its identity is not a
\* substring of dbId.
NotOwner(me) == ~includes(dbId, localId(me))

Returned(v) == [err |-> "none", val |-> v]

\* The (label, slot) entries of a ledger.
entries(L) == { L[i] : i \in 1..Len(L) }

\* C1: after write(f, c) completes on an owned Directory, read(f) returns c,
\* also when f existed before with another content.
C1_WriteThenRead ==
    (last.op = "write" /\ last.err = "none")
        => read(ledger, last.f) = Returned(last.c)

\* C2: after write(f, c1) followed by write(f, c2, allowOverwrite = true)
\* with c1 # c2, read(f) returns c2.
C2_OverwriteReadsNew ==
    (/\ prev.op = "write"
     /\ last.op = "write" /\ last.err = "none" /\ last.ow
     /\ prev.f = last.f /\ prev.c # last.c)
        => read(ledger, last.f) = Returned(last.c)

\* C3: when exists(f), write(f, c2, allowOverwrite = false) fails with
\* AlreadyExists, the ledger is unchanged and read(f) returns what it
\* returned before the call.
C3_NoOverwriteFails ==
    (last.op = "write" /\ ~last.ow /\ exists(last.pre, last.f))
        => /\ last.err = "AlreadyExists"
           /\ ledger = last.pre
           /\ read(ledger, last.f) = read(last.pre, last.f)

C3_Witness ==
    /\ last.op = "write" /\ ~last.ow /\ exists(last.pre, last.f)
    /\ last.err = "AlreadyExists"
    /\ read(last.pre, last.f).err = "none"
    /\ read(last.pre, last.f).val # last.c
    /\ ~NotOwner(last.me)

\* C4: on an owned Directory, delete(f) of an existing f returns and leaves
\* exists(f) false and read(f) failing with NotFound; delete(f) of an absent
\* f fails with NotFound.
C4_DeleteRemoves ==
    (last.op = "delete" /\ ~NotOwner(last.me))
        => IF exists(last.pre, last.f)
           THEN /\ last.err = "none"
                /\ ~exists(ledger, last.f)
                /\ read(ledger, last.f).err = "NotFound"
           ELSE last.err = "NotFound"

\* C5: on an owned Directory with exists(a) and not exists(b), after
\* rename(a, b): exists(a) is false, exists(b) is true and read(b) is what
\* read(a) returned before the call.
C5_RenameMoves ==
    (/\ last.op = "rename" /\ ~NotOwner(last.me)
     /\ exists(last.pre, last.f) /\ ~exists(last.pre, last.g))
        => /\ last.err = "none"
           /\ ~exists(ledger, last.f)
           /\ exists(ledger, last.g)
           /\ read(ledger, last.g) = read(last.pre, last.f)

\* C6: on an owned Directory with exists(a) and not exists(b), after
\* copy(a, b) both exist and read(a) = read(b); a following write(a, c) or
\* write(b, c) makes read of the written name return c and leaves what read
\* returns for the other name unchanged.
C6_CopyIsIndependent ==
    /\ (/\ last.op = "copy" /\ ~NotOwner(last.me)
        /\ exists(last.pre, last.f) /\ ~exists(last.pre, last.g))
          => /\ last.err = "none"
             /\ exists(ledger, last.f) /\ exists(ledger, last.g)
             /\ read(ledger, last.f).err = "none"
             /\ read(ledger, last.f) = read(ledger, last.g)
    /\ (/\ prev.op = "copy"
        /\ last.op = "write" /\ last.ow /\ ~NotOwner(last.me)
        /\ last.f \in {prev.f, prev.g})
          => /\ last.err = "none"
             /\ read(ledger, last.f) = [err |-> "none", val |-> last.c]
             /\ \A h \in {prev.f, prev.g} \ {last.f} :
                   read(ledger, h) = read(last.pre, h)

\* Entries of a ledger that belong to none of the given file names.
entriesNotOf(L, names) == { e \in entries(L) : splitFirst(e.label) \notin names }

\* C7: on an owned Directory with exists(src) and not exists(dst), after
\* move(src, dst): exists(src) is false, exists(dst) is true, read(dst) is
\* the former read(src), and the entries of other files are unchanged.
C7_MoveCopiesThenDeletes ==
    (/\ last.op = "move" /\ ~NotOwner(last.me)
     /\ exists(last.pre, last.f) /\ ~exists(last.pre, last.g))
        => /\ last.err = "none"
           /\ ~exists(ledger, last.f)
           /\ exists(ledger, last.g)
           /\ read(ledger, last.g) = read(last.pre, last.f)
           /\ entriesNotOf(ledger, {last.f, last.g})
                = entriesNotOf(last.pre, {last.f, last.g})

\* C8: after owner writes and deletes from an empty Directory, the set of
\* names list() returns is the set of file names f with exists(f).
C8_ListIsExisting ==
    { list(ledger)[i] : i \in 1..Len(ledger) }
        = { f \in ColonNames : exists(ledger, f) }

\* The arguments of the last call passed its existence checks.
PassedExistenceChecks ==
    \/ last.op = "write" /\ ~(exists(last.pre, last.f) /\ ~last.ow)
    \/ last.op = "delete" /\ exists(last.pre, last.f)
    \/ /\ last.op \in {"rename", "copy", "move"}
       /\ exists(last.pre, last.f) /\ ~exists(last.pre, last.g)

\* C9: called by an addon that is not an owner, with arguments that pass the
\* existence checks, write, delete, rename, copy and move return normally.
C9_NonOwnerReturns ==
    (NotOwner(last.me) /\ PassedExistenceChecks) => last.err = "none"

\* C10: an operation on a Directory whose owner identity is not a substring
\* of dbId leaves the set of (label, slot) entries as it was, whatever the
\* outcome of the call.
C10_NonOwnerFrame ==
    (last.op # "none" /\ NotOwner(last.me)) => entries(ledger) = entries(last.pre)

C10_Witness ==
    /\ NotOwner(last.me)
    /\ PassedExistenceChecks
    /\ last.op = "move"
    /\ Len(last.pre) > 0
    /\ entries(ledger) = entries(last.pre)

\* ---------------------------------------------------------------- signal claims
\* The subscriber set of a channel, as static emit reads it.
subsOf(f, ch) == f[<<"static", ch>>]

members(S) == { S[i] : i \in 1..Len(S) }

\* Number of positions of S that hold cb.
occurrences(S, cb) == Cardinality({ i \in 1..Len(S) : S[i] = cb })

\* Number of calls of the last emission that invoked cb.
invocations(cb) == Cardinality({ i \in 1..Len(bus.calls) : bus.calls[i].cb = cb })

EmitReturned == bus.op = "emit" /\ ~bus.active

\* C11: subscribing a callback again leaves exactly one subscription of it:
\* no set holds a callback twice, a repeated subscribe changes nothing, an
\* emit invokes each subscribed callback once, and one unsubscribe removes it.
C11_SubscribeIdempotent ==
    /\ \A ch \in Channels, cb \in Callbacks : occurrences(subsOf(subs, ch), cb) <= 1
    /\ bus.op = "subscribe"
         => /\ occurrences(subsOf(subs, bus.ch), bus.cb) = 1
            /\ (bus.cb \in members(subsOf(bus.pre, bus.ch)) => subs = bus.pre)
    /\ EmitReturned
         => \A cb \in members(subsOf(bus.pre, bus.ch)) : invocations(cb) = 1
    /\ bus.op = "unsubscribe"
         => occurrences(subsOf(subs, bus.ch), bus.cb) = 0

C11_Witness ==
    /\ bus.op = "subscribe"
    /\ bus.cb \in members(subsOf(bus.pre, bus.ch))
    /\ Len(subsOf(subs, bus.ch)) >= 2
    /\ occurrences(subsOf(subs, bus.ch), bus.cb) = 1

\* C12: after unsubscribe(cb) the callback is out of the set of the channel
\* and the other subscribers are kept; only subscribe(cb) on that channel
\* puts it back; an emit invokes only callbacks that were subscribed when it
\* started; unsubscribing a callback that is not subscribed changes nothing.
C12_UnsubscribeStopsDelivery ==
    /\ bus.op = "unsubscribe"
         => /\ bus.cb \notin members(subsOf(subs, bus.ch))
            /\ members(subsOf(subs, bus.ch)) = members(subsOf(bus.pre, bus.ch)) \ {bus.cb}
            /\ (bus.cb \notin members(subsOf(bus.pre, bus.ch)) => subs = bus.pre)
    /\ \A ch \in Channels, cb \in Callbacks :
         (cb \in members(subsOf(subs, ch)) /\ cb \notin members(subsOf(bus.pre, ch)))
            => (bus.op = "subscribe" /\ bus.ch = ch /\ bus.cb = cb)
    /\ bus.op = "emit"
         => \A i \in 1..Len(bus.calls) :
                bus.calls[i].cb \in members(subsOf(bus.pre, bus.ch))

C12_Witness ==
    /\ bus.op = "unsubscribe"
    /\ bus.cb \in members(subsOf(bus.pre, bus.ch))
    /\ bus.cb \notin members(subsOf(subs, bus.ch))
    /\ Len(subsOf(subs, bus.ch)) >= 1

\* Position of cb in the sequence S, 0 when it is not there.
indexOf(S, cb) ==
    IF cb \in members(S) THEN CHOOSE i \in 1..Len(S) : S[i] = cb ELSE 0

\* C13: an emit never raises to the emitter, and when a subscriber throws,
\* every subscriber registered after it is invoked later in the same emit
\* with the same payload.
C13_ThrowIsIsolated ==
    /\ ~bus.raised
    /\ EmitReturned
         => \A i \in 1..Len(bus.calls) :
                bus.calls[i].threw
                  => \A cb \in members(subsOf(bus.pre, bus.ch)) :
                        indexOf(subsOf(bus.pre, bus.ch), cb)
                            > indexOf(subsOf(bus.pre, bus.ch), bus.calls[i].cb)
                          => \E j \in (i + 1)..Len(bus.calls) :
                                /\ bus.calls[j].cb = cb
                                /\ bus.calls[j].payload = bus.payload
                                /\ bus.calls[i].payload = bus.payload

C13_Witness ==
    /\ EmitReturned
    /\ ~bus.raised
    /\ \E i \in 1..Len(bus.calls) :
          /\ bus.calls[i].threw
          /\ \E j \in (i + 1)..Len(bus.calls) : ~bus.calls[j].threw

\* C18: an emit during which no callback subscribes or unsubscribes invokes
\* the callbacks of the set once each, in the order of the set, before any
\* other call on the signals; the order of the set is the order in which the
\* callbacks were last added: a new callback goes last, a repeated subscribe
\* and an unsubscribe keep the order of the others.
C18_EmitInInsertionOrder ==
    /\ (EmitReturned /\ ~bus.mutated)
         => [i \in 1..Len(bus.calls) |-> bus.calls[i].cb] = subsOf(bus.pre, bus.ch)
    /\ (bus.op = "emit" /\ ~bus.mutated)
         => /\ subs = bus.pre
            /\ bus.cursor = Len(bus.calls)
            /\ [i \in 1..Len(bus.calls) |-> bus.calls[i].cb]
                  = SubSeq(subsOf(bus.pre, bus.ch), 1, Len(bus.calls))
    /\ bus.active => bus.op = "emit"
    /\ bus.op = "subscribe"
         => subsOf(subs, bus.ch)
              = IF bus.cb \in members(subsOf(bus.pre, bus.ch))
                THEN subsOf(bus.pre, bus.ch)
                ELSE Append(subsOf(bus.pre, bus.ch), bus.cb)
    /\ bus.op = "unsubscribe"
         => LET keep(x) == x # bus.cb
            IN subsOf(subs, bus.ch) = SelectSeq(subsOf(bus.pre, bus.ch), keep)

C18_Witness ==
    /\ EmitReturned /\ ~bus.mutated
    /\ Len(bus.calls) >= 2
    /\ bus.calls[1].cb = "k2" /\ bus.calls[2].cb = "k1"

\* C19: a call on one channel leaves the subscriber sets of the other three
\* as they were, an emit invokes only callbacks subscribed on its own
\* channel, and the sets are those of the class: a callback subscribed
\* through one Events instance is in the set every instance uses.
C19_ChannelsIndependent ==
    /\ \A ch \in Channels \ {bus.ch} : subsOf(subs, ch) = subsOf(bus.pre, ch)
    /\ bus.op = "emit"
         => \A i \in 1..Len(bus.calls) :
                bus.calls[i].cb \in members(subsOf(bus.pre, bus.ch))
    /\ \A inst \in Instances, ch \in Channels : subs[<<inst, ch>>] = <<>>
    /\ bus.op = "subscribe"
         => \A inst \in Instances :
                bus.cb \in members(subs[subscribers(inst, bus.ch)])

C19_Witness ==
    /\ EmitReturned
    /\ Len(bus.calls) >= 1
    /\ \E ch \in Channels \ {bus.ch} :
          \E cb \in members(subsOf(subs, ch)) :
              /\ cb \notin members(subsOf(bus.pre, bus.ch))
              /\ invocations(cb) = 0

\* ---------------------------------------------------------------- registry claims
\* C14: new(name) on a directory that exists adds no ledger and changes no
\* ledger, and returns the dbId of the ledger that is there; new(name) on a
\* directory that does not exist adds one empty ledger; after it, every
\* name that differs from name in letter case only resolves to that ledger.
C14_NewIdempotent ==
    reg.op = "new"
      => LET id == ROOT_DIR \o <<".">> \o localId(reg.me) \o <<".">> \o toUpperCase(reg.name)
         IN /\ reg.err = "none"
            /\ reg.ret = id
            /\ id \in DOMAIN sb
            /\ sb[id].displayName = reg.ret
            /\ id \in DOMAIN reg.pre => sb = reg.pre
            /\ id \notin DOMAIN reg.pre
                 => /\ DOMAIN sb = DOMAIN reg.pre \cup {id}
                    /\ sb[id].participants = <<>>
                    /\ \A x \in DOMAIN reg.pre : sb[x] = reg.pre[x]
            /\ \A n \in DirNames :
                 toUpperCase(n) = toUpperCase(reg.name)
                   => FsDir_get(sb, reg.me, n) = reg.ret

C14_Witness ==
    /\ reg.op = "new" /\ reg.name = <<"D">>
    /\ reg.ret \in DOMAIN reg.pre
    /\ reg.pre[reg.ret].participants # <<>>
    /\ sb = reg.pre
    /\ Cardinality(DOMAIN sb) >= 2

\* C15: delete(name) of a directory that exists removes its ledger and no
\* other, and get(name) is then absent and isValid(name) false; the ledger
\* is there again only after new(name); delete(name) of a directory that
\* does not exist fails with NotFound and removes nothing.
C15_DeleteThenAbsent ==
    /\ reg.op = "delete"
         => LET id == ROOT_DIR \o <<".">> \o localId(reg.me) \o <<".">> \o toUpperCase(reg.name)
            IN IF id \in DOMAIN reg.pre
               THEN /\ reg.err = "none"
                    /\ DOMAIN sb = DOMAIN reg.pre \ {id}
                    /\ \A x \in DOMAIN sb : sb[x] = reg.pre[x]
                    /\ FsDir_get(sb, reg.me, reg.name) = NoDirectory
                    /\ ~FsDir_isValid(sb, reg.me, reg.name)
               ELSE /\ reg.err = "NotFound"
                    /\ sb = reg.pre
    /\ \A id \in DOMAIN sb \ DOMAIN reg.pre :
         /\ reg.op = "new"
         /\ id = ROOT_DIR \o <<".">> \o localId(reg.me) \o <<".">> \o toUpperCase(reg.name)

C15_Witness ==
    /\ reg.op = "delete" /\ reg.err = "none"
    /\ Cardinality(DOMAIN reg.pre) >= 2
    /\ Cardinality(DOMAIN sb) = Cardinality(DOMAIN reg.pre) - 1
    /\ FsDir_get(sb, reg.me, reg.name) = NoDirectory

\* ---------------------------------------------------------------- directory claims, continued
\* C16: on an owned Directory, for every file name f the ledger holds at
\* most one entry whose label starts with "f:".
C16_OneEntryPerFile ==
    \A f \in FileNames :
        Cardinality({ i \in 1..Len(ledger) : startsWith(ledger[i].label, f \o <<Colon>>) }) <= 1

\* Score of the participant whose label is fileName ":" JSON of content.
slotOf(L, fileName, content) ==
    L[CHOOSE i \in 1..Len(L) : L[i].label = fileName \o <<Colon>> \o stringify(content)].slot

\* Call w of write was made while the promise of call v had not been
\* awaited, and the two calls wrote distinct file names that were new.
StartedBeforeAwaited(w, v) ==
    /\ pend[w].pc # "idle" /\ pend[v].pc # "idle"
    /\ v \in pend[w].with
    /\ pend[w].fresh /\ pend[v].fresh
    /\ pend[w].f # pend[v].f

\* C17: write reads the count and installs the entry in two ledger calls,
\* and two writes of distinct new file names that are both under way before
\* either completes install their entries with the same slot number.
C17_SlotRace ==
    \A w \in Writers, v \in Writers :
        (StartedBeforeAwaited(w, v) /\ ops = <<v, w>>)
          => slotOf(ledger, pend[w].f, pend[w].c) = slotOf(ledger, pend[v].f, pend[v].c)

\* C17, amended: the count and the setScore of one call run without a
\* statement of another call between them, so of two writes of distinct
\* new file names, the second made right after the first and before either
\* promise is awaited, the second installs its entry with the slot number
\* of the first plus one.
C17_SlotsFollow ==
    \A w \in Writers, v \in Writers :
        (StartedBeforeAwaited(w, v) /\ ops = <<v, w>>)
          => slotOf(ledger, pend[w].f, pend[w].c)
               = slotOf(ledger, pend[v].f, pend[v].c) + 1

C17_Witness ==
    /\ StartedBeforeAwaited("w2", "w1")
    /\ ops = <<"w1", "w2">>
    /\ pend["w1"].pc = "called" /\ pend["w2"].pc = "called"
    /\ slotOf(ledger, pend["w1"].f, pend["w1"].c) = 0
    /\ slotOf(ledger, pend["w2"].f, pend["w2"].c) = 1

\* C20: a rename, copy or move that fails with NotFound or AlreadyExists
\* leaves the ledger as it was; a call whose source is absent or whose
\* target exists fails; with the source absent and the target present the
\* error is NotFound.
C20_FailedCallsChangeNothing ==
    last.op \in {"rename", "copy", "move"}
      => /\ last.err \in {"NotFound", "AlreadyExists"} => ledger = last.pre
         /\ (~exists(last.pre, last.f) \/ exists(last.pre, last.g))
              => (last.err # "none" /\ ledger = last.pre)
         /\ (~exists(last.pre, last.f) /\ exists(last.pre, last.g))
              => last.err = "NotFound"

\* ---------------------------------------------------------------- signal claims, continued
\* C26: within one emit no callback is invoked more than once, also when
\* the callbacks subscribe or unsubscribe callbacks, themselves included,
\* on the channel being emitted (an emit that invokes every callback at
\* most once ends after as many turns as there are callbacks).
C26_AtMostOncePerEmit ==
    bus.op = "emit" => \A cb \in MutCallbacks : invocations(cb) <= 1

\* ---------------------------------------------------------------- directory claims, slots
\* C24: after any sequence of owner writes and deletes, each run to its end
\* before the next call, no two entries of the ledger carry the same slot
\* number.
C24_SlotsDistinct ==
    \A i \in 1..Len(ledger), j \in 1..Len(ledger) :
        i # j => ledger[i].slot # ledger[j].slot

\* ---------------------------------------------------------------- registry claims, continued
\* C21: before initAddon has set the addon data, isValid, get, new and
\* delete of the registry fail with the error of the missing addon data,
\* and the scoreboard holds the objectives it held before the call.
C21_UninitializedFails ==
    (reg.op \in RegistryOps /\ reg.me = acm.addonData.description /\ ~acm.addonData.set)
      => (reg.err = "Uninitialized" /\ sb = reg.pre)

C21_Witness ==
    /\ reg.op = "delete"
    /\ reg.me = acm.addonData.description
    /\ ~acm.addonData.set
    /\ reg.err = "Uninitialized"
    /\ DOMAIN sb # {}
    /\ sb = reg.pre

\* C25: the namespaces of two addons of different identities are disjoint:
\* no directory name of another addon has the objective id of the last
\* call, and the objective that new, get or delete resolved was added by
\* the calling addon.
C25_NamespacesDisjoint ==
    (reg.op \in {"new", "get", "delete"} /\ reg.err = "none")
      => /\ \A other \in NsAddons, n2 \in DirNames :
               getLocalId(other) # getLocalId(reg.me)
                 => format(other, n2) # format(reg.me, reg.name)
         /\ format(reg.me, reg.name) \in DOMAIN made
               => made[format(reg.me, reg.name)] = getLocalId(reg.me)

\* ---------------------------------------------------------------- facade claims
\* C22: when the broadcast of emit(e, d) by an initialised addon is
\* delivered to the listener, the listener emits on the custom-signal
\* channel an event whose addonId is the lower-cased identity of the addon,
\* whose emitterId is the lower-cased e and whose data is d (undefined only
\* when emit was called without data), and when that emit has returned
\* every subscriber of the channel was invoked once with that event.
C22_CustomSignalRoundTrip ==
    (host.op = "deliver" /\ host.own /\ acm.addonData.set
       /\ startsWith(host.in.id, SignalPrefix))
      => /\ host.err = "none"
         /\ host.ch = "CustomSignalEmitted"
         /\ (bus.op = "emit" /\ bus.ch = "CustomSignalEmitted")
              => /\ bus.payload =
                      [addonId |-> toLowerCase(identifier(acm.addonData)),
                       emitterId |-> toLowerCase(host.e),
                       data |-> IF host.given THEN host.d ELSE Undefined]
                 /\ ~bus.active
                      => \A cb \in members(subsOf(subs, "CustomSignalEmitted")) :
                            /\ invocations(cb) = 1
                            /\ \A k \in 1..Len(bus.calls) :
                                  bus.calls[k].payload = bus.payload

\* C23: the listener emits on the extension-triggered channel, and a
\* subscriber of that channel is invoked, only when the event's id is
\* acm:ext_ followed by the identity of the addon, the addon data holds
\* extensions, the playerId of the message is an entity of the world and
\* the extensionId of the message is the id of one of those extensions.
C23_ExtensionTriggerGuarded ==
    (host.op = "deliver" /\ host.ch = "ExtensionTriggerd")
      => /\ host.in.id = ExtPrefix \o identifier(acm.addonData)
         /\ acm.addonData.extensions.def
         /\ parseExt(host.in.message).t = "obj"
         /\ parseExt(host.in.message).playerId \in Entities
         /\ \E i \in 1..Len(acm.addonData.extensions.ids) :
               acm.addonData.extensions.ids[i] = parseExt(host.in.message).extensionId

====
